---- MODULE Spec2Model ----
(***************************************************************************)
(* A model of the itch.io creator scraper: the job registry and the        *)
(* background task of app.py, and the paginator, project scraper and       *)
(* orchestrator of scraper.py.                                             *)
(*                                                                         *)
(* Strings are sequences of one-character strings, so that the string      *)
(* operations of the code (startswith, replace, int, rsplit, rstrip, the   *)
(* whitespace regex) are computed and not assumed.  Python's None and a    *)
(* missing HTML attribute are the one-element tuples None and NoAttr,      *)
(* whose element is no character.                                          *)
(***************************************************************************)
EXTENDS Naturals, Sequences, FiniteSets

None == <<"None">>
NoAttr == <<"NoAttr">>

\* Python truthiness of an optional string: None and "" are falsy.
Truthy(s) == s # None /\ s # <<>>

Whitespace == {" ", "\n"}
Digits == <<"0", "1", "2", "3", "4", "5", "6", "7", "8", "9">>
DigitSet == {Digits[i] : i \in 1..10}
DigitValue(c) == (CHOOSE i \in 1..10 : Digits[i] = c) - 1

\* str.startswith
StartsWith(s, p) == Len(s) >= Len(p) /\ SubSeq(s, 1, Len(p)) = p

\* str.replace(p, "") : every non-overlapping occurrence, left to right.
RECURSIVE Remove(_, _)
Remove(s, p) ==
    IF s = <<>> THEN <<>>
    ELSE IF StartsWith(s, p) THEN Remove(SubSeq(s, Len(p) + 1, Len(s)), p)
    ELSE <<Head(s)>> \o Remove(Tail(s), p)

\* str.strip() for the whitespace of the model's alphabet.
RECURSIVE LStrip(_)
LStrip(s) == IF s # <<>> /\ Head(s) \in Whitespace THEN LStrip(Tail(s)) ELSE s
RECURSIVE RStrip(_)
RStrip(s) ==
    IF s # <<>> /\ s[Len(s)] \in Whitespace THEN RStrip(SubSeq(s, 1, Len(s) - 1)) ELSE s
Strip(s) == RStrip(LStrip(s))

\* int(s): surrounding whitespace is dropped, then one or more digits, single
\* underscores allowed between digits; anything else raises ValueError.
IsIntLiteral(s) ==
    LET t == Strip(s) IN
    /\ t # <<>>
    /\ \A i \in 1..Len(t) : t[i] \in DigitSet \cup {"_"}
    /\ t[1] \in DigitSet /\ t[Len(t)] \in DigitSet
    /\ \A i \in 1..(Len(t) - 1) : ~(t[i] = "_" /\ t[i + 1] = "_")
RECURSIVE DigitsValue(_, _)
DigitsValue(t, acc) ==
    IF t = <<>> THEN acc
    ELSE IF Head(t) = "_" THEN DigitsValue(Tail(t), acc)
    ELSE DigitsValue(Tail(t), 10 * acc + DigitValue(Head(t)))
IntParse(s) == DigitsValue(Strip(s), 0)

\* str(n) for a natural number.
RECURSIVE IntToStr(_)
IntToStr(n) == IF n < 10 THEN <<Digits[n + 1]>> ELSE IntToStr(n \div 10) \o <<Digits[(n % 10) + 1]>>

\* The position of the last occurrence of character c in s, 0 when there is none.
RECURSIVE LastIndex(_, _)
LastIndex(s, c) ==
    IF s = <<>> THEN 0
    ELSE IF s[Len(s)] = c THEN Len(s)
    ELSE LastIndex(SubSeq(s, 1, Len(s) - 1), c)
RECURSIVE FirstIndex(_, _)
FirstIndex(s, c) ==
    IF s = <<>> THEN 0
    ELSE IF Head(s) = c THEN 1
    ELSE LET r == FirstIndex(Tail(s), c) IN IF r = 0 THEN 0 ELSE r + 1

\* s.rsplit(c, 1)[-1] and s.split("/")[-1]: the text after the last c.
AfterLast(s, c) == SubSeq(s, LastIndex(s, c) + 1, Len(s))
\* s.split(c)[0]: the text before the first c.
BeforeFirst(s, c) == IF FirstIndex(s, c) = 0 THEN s ELSE SubSeq(s, 1, FirstIndex(s, c) - 1)
\* s.rstrip("/")
RECURSIVE RStripSlash(_)
RStripSlash(s) ==
    IF s # <<>> /\ s[Len(s)] = "/" THEN RStripSlash(SubSeq(s, 1, Len(s) - 1)) ELSE s

\* s.rstrip(":")
RECURSIVE RStripColon(_)
RStripColon(s) ==
    IF s # <<>> /\ s[Len(s)] = ":" THEN RStripColon(SubSeq(s, 1, Len(s) - 1)) ELSE s

\* _ext_from_url
ext_from_url(url) ==
    LET path == BeforeFirst(url, "?")
        last == AfterLast(path, "/")
    IN IF LastIndex(last, ".") # 0 THEN <<".">> \o AfterLast(last, ".")
       ELSE <<".", "j", "p", "g">>

\* re.sub(r"\s+", " ", text): every run of whitespace becomes one space.
RECURSIVE CollapseWs(_)
CollapseWs(s) ==
    IF s = <<>> THEN <<>>
    ELSE IF Head(s) \in Whitespace
         THEN <<" ">> \o CollapseWs(LStrip(s))
         ELSE <<Head(s)>> \o CollapseWs(Tail(s))
\* _clean
clean(text) == IF ~Truthy(text) THEN <<>> ELSE Strip(CollapseWs(text))

(***************************************************************************)
(* A fetched project page, as the elements the selectors of scrape_project *)
(* look for.  An element is None when the page does not have it; the       *)
(* content of a meta tag is NoAttr when the tag has no content attribute.  *)
(*   h1, desc, price       : None or the element's text                    *)
(*   ogTitle, ogDesc, ogImage, ratingValue, ratingCount                    *)
(*                         : None, NoAttr or the content attribute         *)
(*   tags                  : the texts of the tag links                    *)
(*   info                  : the table rows, each the texts of its cells   *)
(*   icons                 : the class lists of the .icon elements         *)
(*   coverImg              : <<>> or <<[src, lazy]>> (None: no attribute)  *)
(*   shotLinks             : the href of each gallery anchor (None: none)  *)
(*   shotImgs              : [src, lazy] of each gallery image             *)
(***************************************************************************)

\* Tag.get(attr) or Tag.get(other, ""): the first truthy one, else the default "".
AttrOr(a, b) == IF Truthy(a) THEN a ELSE IF b = None THEN <<>> ELSE b

RECURSIVE Flatten(_)
Flatten(ss) == IF ss = <<>> THEN <<>> ELSE Head(ss) \o Flatten(Tail(ss))

\* scraper.py:97-101.  raised: og:title is present without a content attribute.
TitleRaises(page) == clean(page.h1) = <<>> /\ page.ogTitle = NoAttr
ExtractTitle(page, url) ==
    LET title == clean(page.h1) IN
    IF title # <<>> THEN title
    ELSE IF page.ogTitle # None THEN page.ogTitle
    ELSE AfterLast(url, "/")

\* scraper.py:103
Slug(url) == AfterLast(RStripSlash(url), "/")

\* scraper.py:112-115
ExtractShort(page) ==
    IF page.ogDesc = None THEN <<>>
    ELSE clean(IF page.ogDesc = NoAttr THEN <<>> ELSE page.ogDesc)

\* scraper.py:123-131: a dict, a later row with the same key replaces the value.
RECURSIVE InfoDict(_)
InfoDict(rows) ==
    IF rows = <<>> THEN <<>>
    ELSE LET row == rows[Len(rows)]
             rest == InfoDict(SubSeq(rows, 1, Len(rows) - 1))
             key == RStripColon(clean(row[1]))
             val == clean(row[2])
             at == {i \in 1..Len(rest) : rest[i][1] = key}
         IN IF Len(row) = 2 /\ key # <<>>
            THEN IF at = {} THEN Append(rest, <<key, val>>)
                 ELSE [i \in 1..Len(rest) |-> IF i \in at THEN <<key, val>> ELSE rest[i]]
            ELSE rest

\* scraper.py:118-120
ExtractTags(page) == [i \in 1..Len(page.tags) |-> clean(page.tags[i])]

\* scraper.py:134-135
Free == <<"F", "r", "e", "e">>
ExtractPrice(page) == IF page.price = None THEN Free ELSE clean(page.price)

\* scraper.py:138-143
IconPrefix == <<"i", "c", "o", "n", "-">>
RECURSIVE IconNames(_)
IconNames(cls) ==
    IF cls = <<>> THEN <<>>
    ELSE (IF StartsWith(Head(cls), IconPrefix) THEN <<Remove(Head(cls), IconPrefix)>> ELSE <<>>)
         \o IconNames(Tail(cls))
ExtractPlatforms(page) == Flatten([i \in 1..Len(page.icons) |-> IconNames(page.icons[i])])

\* scraper.py:146-149.  raised: a rating meta tag without a content attribute.
RatingRaises(page) == page.ratingValue = NoAttr \/ page.ratingCount = NoAttr

\* scraper.py:157-164.  raised: og:image is present without a content attribute.
CoverRaises(page) == page.ogImage = NoAttr
CoverUrl(page) ==
    LET first == IF page.ogImage # None THEN page.ogImage ELSE None IN
    IF Truthy(first) THEN first
    ELSE IF page.coverImg # <<>> THEN AttrOr(page.coverImg[1].src, page.coverImg[1].lazy)
    ELSE first

\* scraper.py:174-183
RECURSIVE TruthyOnly(_)
TruthyOnly(s) ==
    IF s = <<>> THEN <<>>
    ELSE (IF Truthy(Head(s)) THEN <<Head(s)>> ELSE <<>>) \o TruthyOnly(Tail(s))
ImgSrc(img) == IF Truthy(img.src) THEN img.src ELSE img.lazy
ScreenshotUrls(page) ==
    LET fromLinks == TruthyOnly(page.shotLinks) IN
    IF fromLinks # <<>> THEN fromLinks
    ELSE TruthyOnly([i \in 1..Len(page.shotImgs) |-> ImgSrc(page.shotImgs[i])])

\* File names and relative paths (scraper.py:169-171, 188-190).
ImagesDir == <<"i", "m", "a", "g", "e", "s">>
CoverStem == <<"c", "o", "v", "e", "r">>
ShotStem(i) == <<"s", "c", "r", "e", "e", "n", "s", "h", "o", "t", "_">> \o IntToStr(i)
RelPath(stem, ext) == ImagesDir \o <<"/">> \o stem \o ext

\* scraper.py:166-171, 185-190: download_tasks, the cover first, then the
\* screenshots by position from 0.  dest is the path below the output directory:
\* the project's directory (its slug) and the path inside it.
CoverTasks(page, slug) ==
    IF Truthy(CoverUrl(page))
    THEN <<[name |-> CoverStem, url |-> CoverUrl(page),
            dest |-> <<slug, RelPath(CoverStem, ext_from_url(CoverUrl(page)))>>]>>
    ELSE <<>>
ShotTasks(page, slug) ==
    LET su == ScreenshotUrls(page) IN
    [i \in 1..Len(su) |->
        [name |-> ShotStem(i - 1), url |-> su[i],
         dest |-> <<slug, RelPath(ShotStem(i - 1), ext_from_url(su[i]))>>]]
DownloadTasks(page, url) == CoverTasks(page, Slug(url)) \o ShotTasks(page, Slug(url))

\* scraper.py:166-171
CoverSaved(page) ==
    IF Truthy(CoverUrl(page)) THEN RelPath(CoverStem, ext_from_url(CoverUrl(page))) ELSE None
\* scraper.py:185-190
ScreenshotSaved(page) ==
    LET su == ScreenshotUrls(page) IN
    [i \in 1..Len(su) |-> RelPath(ShotStem(i - 1), ext_from_url(su[i]))]

\* scraper.py:197-211: the metadata of a page whose extraction did not raise.
Metadata(page, url) ==
    [url |-> url,
     title |-> ExtractTitle(page, url),
     slug |-> Slug(url),
     short_description |-> ExtractShort(page),
     description |-> IF page.desc = None THEN <<>> ELSE clean(page.desc),
     tags |-> ExtractTags(page),
     info |-> InfoDict(page.info),
     price |-> ExtractPrice(page),
     platforms |-> ExtractPlatforms(page),
     rating |-> page.ratingValue,
     rating_count |-> page.ratingCount,
     cover_image |-> CoverSaved(page),
     screenshots |-> ScreenshotSaved(page)]

\* Where scrape_project's extraction (scraper.py:95-190) raises KeyError, in the
\* order of the code: "title" (line 101), "rating" (148-149), "cover" (160);
\* "ok" when it does not.
ExtractOutcome(page) ==
    IF TitleRaises(page) THEN "title"
    ELSE IF RatingRaises(page) THEN "rating"
    ELSE IF CoverRaises(page) THEN "cover"
    ELSE "ok"

(***************************************************************************)
(* The state.  Every variable but jobs is a function of the job id, the    *)
(* state of the task that _run_scrape runs for that job.                   *)
(***************************************************************************)
VARIABLES
    jobs,       \* app.py:25, the registry: job id -> [status, progress, total, error, zip]
    pc,         \* where the job's task stands
    creator,    \* the creator the job scrapes
    page,       \* fetch_project_urls: page
    urls,       \* fetch_project_urls: urls, then scrape_creator: project_urls
    soup,       \* fetch_project_urls: the listing pages fetched by the running call
    idx,        \* scrape_creator: the position in project_urls of the loop of line 242
    results,    \* scrape_creator: results
    cur,        \* scrape_project: the page, metadata, download_tasks and the
                \* position of the loop of line 194
    sem,        \* the free slots of the job's asyncio.Semaphore
    inflight,   \* the outbound requests awaiting their response
    requests,   \* every request issued so far, in order
    responses,  \* how each request answered so far ended, in the same order
    events,     \* every message on_progress was called with, in order
    disk,       \* the job's output tree
    written     \* the project URL of every metadata.json write so far, in order

vars == <<jobs, pc, creator, page, urls, soup, idx, results, cur, sem,
          inflight, requests, responses, events, disk, written>>

FirstJob == "j1"
AllJobs == {"j1", "j2"}

\* scraper.py:16
MAX_CONCURRENT_DOWNLOADS == 6

\* A function with one more (or one changed) entry: d[k] = v.
Put(d, k, v) == [x \in DOMAIN d \cup {k} |-> IF x = k THEN v ELSE d[x]]

\* dirs: the directories; meta: slug -> the record in <slug>/metadata.json;
\* images: path -> content; index: <<>> or <<the document in index.json>>.
EmptyDisk == [dirs |-> {}, meta |-> <<>>, images |-> <<>>, index |-> <<>>, zip |-> None]
NoCur == [page |-> <<>>, meta |-> <<>>, tasks |-> <<>>, k |-> 0]

Init ==
    /\ jobs = <<>>
    /\ pc = [j \in AllJobs |-> "none"]
    /\ creator = [j \in AllJobs |-> None]
    /\ page = [j \in AllJobs |-> 0]
    /\ urls = [j \in AllJobs |-> <<>>]
    /\ soup = [j \in AllJobs |-> <<>>]
    /\ idx = [j \in AllJobs |-> 0]
    /\ results = [j \in AllJobs |-> <<>>]
    /\ cur = [j \in AllJobs |-> NoCur]
    /\ sem = [j \in AllJobs |-> 0]
    /\ inflight = [j \in AllJobs |-> {}]
    /\ requests = [j \in AllJobs |-> <<>>]
    /\ responses = [j \in AllJobs |-> <<>>]
    /\ events = [j \in AllJobs |-> <<>>]
    /\ disk = [j \in AllJobs |-> EmptyDisk]
    /\ written = [j \in AllJobs |-> <<>>]

(***************************************************************************)
(* app.py                                                                  *)
(***************************************************************************)

\* app.py:36, .strip().lower() on the alphabet of the model.
Lower(s) == [i \in 1..Len(s) |-> IF s[i] = "A" THEN "a" ELSE IF s[i] = "B" THEN "b" ELSE s[i]]
NormalizeCreator(raw) == Lower(Strip(raw))
\* app.py:37, ^[a-z0-9\-]+$
CreatorChars == {"a", "b", "c", "-"} \cup DigitSet
ValidCreator(c) == c # <<>> /\ \A i \in 1..Len(c) : c[i] \in CreatorChars

\* The request bodies tried: " A" is accepted as "a", "a_" and "" are refused.
RawCreators == {<<"a">>, <<" ", "A">>, <<"a", "_">>, <<>>}

\* app.py:41
NewJob == [status |-> "running", progress |-> <<>>, total |-> 0, error |-> None, zip |-> None]

\* app.py:33-44.  A refused body (HTTP 400) creates no job and changes nothing.
start_scrape(j, raw) ==
    /\ j \notin DOMAIN jobs
    /\ ValidCreator(NormalizeCreator(raw))
    /\ jobs' = Put(jobs, j, NewJob)
    /\ creator' = [creator EXCEPT ![j] = NormalizeCreator(raw)]
    /\ pc' = [pc EXCEPT ![j] = "start"]
    /\ UNCHANGED <<page, urls, soup, idx, results, cur, sem, inflight, requests, responses, events, disk, written>>

\* app.py:74-78, on_progress.
TotalPrefix == <<"_", "_", "t", "o", "t", "a", "l", "_", "_">>
OnProgressRaises(msg) ==
    StartsWith(msg, TotalPrefix) /\ ~IsIntLiteral(Remove(msg, TotalPrefix))
on_progress(job, msg) ==
    IF StartsWith(msg, TotalPrefix)
    THEN [job EXCEPT !.total = IntParse(Remove(msg, TotalPrefix))]
    ELSE [job EXCEPT !.progress = Append(job.progress, msg)]

\* str(e) of the exceptions the run can raise.  A fragment longer than one
\* character stands for that fixed text.
NoProjectsError(c) == <<"No public projects found for '">> \o c \o <<"'">>
KeyErrorContent == <<"'content'">>
IntError(text) == <<"invalid literal for int() with base 10: '">> \o text \o <<"'">>
FetchErrors == {<<"ConnectError">>, <<"HTTPStatusError">>}
\* How a request ended: Ok, one of FetchErrors for a page, DownloadFailed for an
\* asset whose _download_file returned False.
Ok == <<"ok">>
DownloadFailed == <<"failed">>

\* app.py:88-91: the except branch of _run_scrape; the task ends.
\* The status is set and the message is not.
Failed_NoMessage(job, err) == [job EXCEPT !.status = "error"]

Failed(job, err) == [job EXCEPT !.status = "error", !.error = err]

\* app.py:70-72 and scraper.py:230-233: the task starts, creates the output
\* directory and the limiter, and enters fetch_project_urls (scraper.py:54-56).
OutputDir == <<>>
\* The limiter is created without a slot.
TaskStart_NoSlot(j) ==
    /\ pc[j] = "start"
    /\ disk' = [disk EXCEPT ![j].dirs = @ \cup {OutputDir}]
    /\ sem' = [sem EXCEPT ![j] = 0]
    /\ page' = [page EXCEPT ![j] = 1]
    /\ urls' = [urls EXCEPT ![j] = <<>>]
    /\ pc' = [pc EXCEPT ![j] = "list_req"]
    /\ UNCHANGED <<jobs, creator, soup, idx, results, cur, inflight, requests, responses, events, written>>

TaskStart(j) ==
    /\ pc[j] = "start"
    /\ disk' = [disk EXCEPT ![j].dirs = @ \cup {OutputDir}]
    /\ sem' = [sem EXCEPT ![j] = MAX_CONCURRENT_DOWNLOADS]
    /\ page' = [page EXCEPT ![j] = 1]
    /\ urls' = [urls EXCEPT ![j] = <<>>]
    /\ pc' = [pc EXCEPT ![j] = "list_req"]
    /\ UNCHANGED <<jobs, creator, soup, idx, results, cur, inflight, requests, responses, events, written>>

\* The failure is recorded and the task goes on where it was.
Abort_GoesOn(j, err) ==
    /\ jobs' = [jobs EXCEPT ![j] = Failed(@, err)]
    /\ UNCHANGED pc

\* The failure is recorded on every job of the registry.
Abort_MarksAll(j, err) ==
    /\ jobs' = [k \in DOMAIN jobs |-> Failed(jobs[k], err)]
    /\ pc' = [pc EXCEPT ![j] = "done"]

\* The end of the task by an exception that reaches _run_scrape (app.py:88-91).
Abort(j, err) ==
    /\ jobs' = [jobs EXCEPT ![j] = Failed(@, err)]
    /\ pc' = [pc EXCEPT ![j] = "done"]

(***************************************************************************)
(* scraper.py: fetch_project_urls                                          *)
(*   A listing page is [primary, thumb, next]: the href of each element    *)
(*   the primary selector matches, of each the thumbnail selector matches  *)
(*   (None: no href attribute), and whether a.next_page is there.          *)
(***************************************************************************)

\* scraper.py:54, 59
PageUrl(c, n) ==
    <<"https://">> \o c \o <<".itch.io">> \o (IF n = 1 THEN <<>> ELSE <<"?page=">> \o IntToStr(n))

\* scraper.py:63-66
Cells(p) == IF p.primary # <<>> THEN p.primary ELSE p.thumb

Range(s) == {s[i] : i \in 1..Len(s)}

IsNew_NoDedup(href, collected) == Truthy(href)

\* scraper.py:71
IsNew(href, collected) == Truthy(href) /\ href \notin Range(collected)

\* scraper.py:68-73: urls after the loop over the cells.
RECURSIVE Collect(_, _)
Collect(collected, cells) ==
    IF cells = <<>> THEN collected
    ELSE Collect(IF IsNew(Head(cells), collected) THEN Append(collected, Head(cells))
                 ELSE collected,
                 Tail(cells))

ShouldStop_IgnoresFound(next_btn, found) == ~next_btn

\* scraper.py:75-77: the break.
ShouldStop(next_btn, found) == ~next_btn \/ found = 0

\* scraper.py:59-60: the request for the listing page is sent.
ListingRequest(j) ==
    /\ pc[j] = "list_req"
    /\ LET req == [kind |-> "listing", url |-> PageUrl(creator[j], page[j])] IN
        /\ inflight' = [inflight EXCEPT ![j] = @ \cup {req}]
        /\ requests' = [requests EXCEPT ![j] = Append(@, req)]
    /\ pc' = [pc EXCEPT ![j] = "list_resp"]
    /\ UNCHANGED <<jobs, creator, page, urls, soup, idx, results, cur, sem, events, disk, responses, written>>

\* scraper.py:19-22, 60: the request fails or the status is not a success;
\* the exception leaves fetch_project_urls and scrape_creator.
ListingFail(j, err) ==
    /\ pc[j] = "list_resp"
    /\ inflight' = [inflight EXCEPT ![j] = {}]
    /\ responses' = [responses EXCEPT ![j] = Append(@, err)]
    /\ Abort(j, err)
    /\ UNCHANGED <<creator, page, urls, soup, idx, results, cur, sem, requests, events, disk, written>>

\* scraper.py:61-80: the page p arrives and is processed; the loop goes on to
\* the next page or the function returns.
ListingOk(j, p) ==
    /\ pc[j] = "list_resp"
    /\ inflight' = [inflight EXCEPT ![j] = {}]
    /\ responses' = [responses EXCEPT ![j] = Append(@, Ok)]
    /\ soup' = [soup EXCEPT ![j] = Append(@, p)]
    /\ LET after == Collect(urls[j], Cells(p))
           found == Len(after) - Len(urls[j])
       IN /\ urls' = [urls EXCEPT ![j] = after]
          /\ IF ShouldStop(p.next, found)
             THEN /\ pc' = [pc EXCEPT ![j] = "listed"]
                  /\ page' = page
             ELSE /\ pc' = [pc EXCEPT ![j] = "list_req"]
                  /\ page' = [page EXCEPT ![j] = @ + 1]
    /\ UNCHANGED <<jobs, creator, idx, results, cur, sem, requests, events, disk, written>>

(***************************************************************************)
(* scraper.py: scrape_creator                                              *)
(***************************************************************************)

\* scraper.py:239
TotalMessage(n) == TotalPrefix \o IntToStr(n)

NoProjects_Unchecked(project_urls) == FALSE

\* scraper.py:235
NoProjects(project_urls) == project_urls = <<>>

\* scraper.py:234-241: fetch_project_urls has returned.  No project: ValueError.
\* Otherwise the total-count event, and the loop over project_urls begins.
Orchestrate(j) ==
    /\ pc[j] = "listed"
    /\ soup' = [soup EXCEPT ![j] = <<>>]
    /\ IF NoProjects(urls[j])
       THEN /\ Abort(j, NoProjectsError(creator[j]))
            /\ UNCHANGED <<events, idx, results, written>>
       ELSE LET msg == TotalMessage(Len(urls[j])) IN
            /\ events' = [events EXCEPT ![j] = Append(@, msg)]
            /\ IF OnProgressRaises(msg)
               THEN /\ Abort(j, IntError(Remove(msg, TotalPrefix)))
                    /\ UNCHANGED <<idx, results, written>>
               ELSE /\ jobs' = [jobs EXCEPT ![j] = on_progress(@, msg)]
                    /\ results' = [results EXCEPT ![j] = <<>>]
                    /\ idx' = [idx EXCEPT ![j] = 1]
                    /\ pc' = [pc EXCEPT ![j] =
                                IF urls[j] # <<>> THEN "proj_req" ELSE "index"]
    /\ UNCHANGED <<creator, page, urls, cur, sem, inflight, requests, responses, disk, written>>

(***************************************************************************)
(* scraper.py: scrape_project                                              *)
(***************************************************************************)

\* scraper.py:242-243, 92-93: the limiter slot is taken and the request for the
\* page of project_urls[idx] is sent.
ProjectRequest(j) ==
    /\ pc[j] = "proj_req"
    /\ sem[j] > 0
    /\ sem' = [sem EXCEPT ![j] = @ - 1]
    /\ LET req == [kind |-> "project", url |-> urls[j][idx[j]]] IN
        /\ inflight' = [inflight EXCEPT ![j] = @ \cup {req}]
        /\ requests' = [requests EXCEPT ![j] = Append(@, req)]
    /\ pc' = [pc EXCEPT ![j] = "proj_resp"]
    /\ UNCHANGED <<jobs, creator, page, urls, soup, idx, results, cur, events, disk, responses, written>>

\* The slot is not given back when the page fetch raises.
ProjectFail_KeepsSlot(j, err) ==
    /\ pc[j] = "proj_resp"
    /\ inflight' = [inflight EXCEPT ![j] = {}]
    /\ responses' = [responses EXCEPT ![j] = Append(@, err)]
    /\ Abort(j, err)
    /\ UNCHANGED <<creator, page, urls, soup, idx, results, cur, sem, requests, events, disk, written>>

\* The failed project is skipped and the loop goes on.
ProjectFail_Skips(j, err) ==
    /\ pc[j] = "proj_resp"
    /\ inflight' = [inflight EXCEPT ![j] = {}]
    /\ responses' = [responses EXCEPT ![j] = Append(@, err)]
    /\ sem' = [sem EXCEPT ![j] = @ + 1]
    /\ idx' = [idx EXCEPT ![j] = @ + 1]
    /\ pc' = [pc EXCEPT ![j] = IF idx[j] + 1 <= Len(urls[j]) THEN "proj_req" ELSE "index"]
    /\ UNCHANGED <<jobs, creator, page, urls, soup, results, cur, requests, events, disk, written>>

\* scraper.py:92-93, 19-22: the page fetch fails; the slot is released on the
\* way out and the exception leaves scrape_project and scrape_creator.
ProjectFail(j, err) ==
    /\ pc[j] = "proj_resp"
    /\ inflight' = [inflight EXCEPT ![j] = {}]
    /\ responses' = [responses EXCEPT ![j] = Append(@, err)]
    /\ sem' = [sem EXCEPT ![j] = @ + 1]
    /\ Abort(j, err)
    /\ UNCHANGED <<creator, page, urls, soup, idx, results, cur, requests, events, disk, written>>

\* The directories scrape_project has created when the extraction ends with
\* outcome o: project_dir at line 105, images_dir at line 153.
DirsMade(o, slug) ==
    (IF o # "title" THEN {<<slug>>} ELSE {})
    \cup (IF o \in {"cover", "ok"} THEN {<<slug, ImagesDir>>} ELSE {})

\* scraper.py:93-193: the page p arrives, the slot is released, the fields are
\* extracted (a KeyError ends the run) and the slot is taken again for the
\* downloads.
ProjectOk(j, p) ==
    /\ pc[j] = "proj_resp"
    /\ inflight' = [inflight EXCEPT ![j] = {}]
    /\ responses' = [responses EXCEPT ![j] = Append(@, Ok)]
    /\ LET url == urls[j][idx[j]]
           o == ExtractOutcome(p)
       IN /\ disk' = [disk EXCEPT ![j].dirs = @ \cup DirsMade(o, Slug(url))]
          /\ IF o # "ok"
             THEN /\ Abort(j, KeyErrorContent)
                  /\ sem' = [sem EXCEPT ![j] = @ + 1]
                  /\ cur' = cur
             ELSE /\ cur' = [cur EXCEPT ![j] =
                                [page |-> <<p>>, meta |-> Metadata(p, url),
                                 tasks |-> DownloadTasks(p, url), k |-> 1]]
                  /\ sem' = [sem EXCEPT ![j] = (@ + 1) - 1]
                  /\ pc' = [pc EXCEPT ![j] = "download"]
                  /\ jobs' = jobs
    /\ UNCHANGED <<creator, page, urls, soup, idx, results, requests, events, written>>

\* The downloads of the project are all started together.
DownloadRequest_Gather(j) ==
    /\ pc[j] = "download"
    /\ cur[j].k <= Len(cur[j].tasks)
    /\ LET reqs == [n \in 1..(Len(cur[j].tasks) - cur[j].k + 1) |->
                        [kind |-> "asset", url |-> cur[j].tasks[cur[j].k + n - 1].url]] IN
        /\ inflight' = [inflight EXCEPT ![j] = @ \cup Range(reqs)]
        /\ requests' = [requests EXCEPT ![j] = @ \o reqs]
    /\ pc' = [pc EXCEPT ![j] = "dl_resp"]
    /\ UNCHANGED <<jobs, creator, page, urls, soup, idx, results, cur, sem, events, disk, responses, written>>

\* scraper.py:194-195, 27: the request for the next enumerated asset is sent.
DownloadRequest(j) ==
    /\ pc[j] = "download"
    /\ cur[j].k <= Len(cur[j].tasks)
    /\ LET req == [kind |-> "asset", url |-> cur[j].tasks[cur[j].k].url] IN
        /\ inflight' = [inflight EXCEPT ![j] = @ \cup {req}]
        /\ requests' = [requests EXCEPT ![j] = Append(@, req)]
    /\ pc' = [pc EXCEPT ![j] = "dl_resp"]
    /\ UNCHANGED <<jobs, creator, page, urls, soup, idx, results, cur, sem, events, disk, responses, written>>

\* scraper.py:25-34: _download_file ends; ok: the file is written (the content
\* is named by the URL it came from); not ok: the exception is logged and False
\* is returned.  The loop of line 194 goes on either way.
DownloadResponse(j, ok) ==
    /\ pc[j] = "dl_resp"
    /\ inflight' = [inflight EXCEPT ![j] = {}]
    /\ responses' = [responses EXCEPT ![j] = Append(@, IF ok THEN Ok ELSE DownloadFailed)]
    /\ LET t == cur[j].tasks[cur[j].k] IN
        /\ disk' = [disk EXCEPT ![j].images = IF ok THEN Put(@, t.dest, t.url) ELSE @]
        /\ cur' = [cur EXCEPT ![j].k = @ + 1]
    /\ pc' = [pc EXCEPT ![j] = "download"]
    /\ UNCHANGED <<jobs, creator, page, urls, soup, idx, results, sem, requests, events, written>>

\* scraper.py:193-215: the download loop is over, the slot is released and
\* metadata.json is written.
Persist(j) ==
    /\ pc[j] = "download"
    /\ cur[j].k > Len(cur[j].tasks)
    /\ sem' = [sem EXCEPT ![j] = @ + 1]
    /\ disk' = [disk EXCEPT ![j].meta = Put(@, cur[j].meta.slug, cur[j].meta)]
    /\ written' = [written EXCEPT ![j] = Append(@, cur[j].meta.url)]
    /\ pc' = [pc EXCEPT ![j] = "emit"]
    /\ UNCHANGED <<jobs, creator, page, urls, soup, idx, results, cur, inflight, requests, responses, events>>

\* scraper.py:218
CompletionMessage(meta) == IF Truthy(meta.title) THEN meta.title ELSE meta.slug

\* scraper.py:217-220, 244: the completion message goes to on_progress (a
\* ValueError of its int() ends the run), scrape_project returns and the record
\* is appended to results.
Emit(j) ==
    /\ pc[j] = "emit"
    /\ LET msg == CompletionMessage(cur[j].meta) IN
        /\ events' = [events EXCEPT ![j] = Append(@, msg)]
        /\ IF OnProgressRaises(msg)
           THEN /\ Abort(j, IntError(Remove(msg, TotalPrefix)))
                /\ UNCHANGED <<results, idx, cur, written>>
           ELSE /\ jobs' = [jobs EXCEPT ![j] = on_progress(@, msg)]
                /\ results' = [results EXCEPT ![j] = Append(@, cur[j].meta)]
                /\ idx' = [idx EXCEPT ![j] = @ + 1]
                /\ cur' = [cur EXCEPT ![j] = NoCur]
                /\ pc' = [pc EXCEPT ![j] =
                            IF idx[j] + 1 <= Len(urls[j]) THEN "proj_req" ELSE "index"]
    /\ UNCHANGED <<creator, page, urls, soup, sem, inflight, requests, responses, disk, written>>

\* scraper.py:247-255: index.json is written and scrape_creator returns.
WriteIndex(j) ==
    /\ pc[j] = "index"
    /\ disk' = [disk EXCEPT ![j].index =
                    <<[creator |-> creator[j], project_count |-> Len(results[j]),
                       projects |-> results[j]]>>]
    /\ pc' = [pc EXCEPT ![j] = "archive"]
    /\ UNCHANGED <<jobs, creator, page, urls, soup, idx, results, cur, sem, inflight,
                   requests, responses, events, written>>

\* app.py:83-84
ZipPath(j, c) == <<j>> \o c \o <<"_itch.zip">>

\* app.py:83-87: the archive is made and the job is done.
Archive(j) ==
    /\ pc[j] = "archive"
    /\ disk' = [disk EXCEPT ![j].zip = ZipPath(j, creator[j])]
    /\ jobs' = [jobs EXCEPT ![j].zip = ZipPath(j, creator[j]), ![j].status = "done"]
    /\ pc' = [pc EXCEPT ![j] = "done"]
    /\ UNCHANGED <<creator, page, urls, soup, idx, results, cur, sem, inflight, requests, responses, events, written>>

\* app.py:55-67: the answer of GET /api/download/<j>: one of the two 404
\* details, or the path of the file sent.
NotReady == <<"Zip not ready">>
FileMissing == <<"Zip file missing">>
download_zip(j) ==
    IF j \notin DOMAIN jobs \/ ~Truthy(jobs[j].zip) THEN NotReady
    ELSE IF disk[j].zip # jobs[j].zip THEN FileMissing
    ELSE jobs[j].zip

(***************************************************************************)
(* The pages the network answers with.                                     *)
(***************************************************************************)

\* Project URLs: U1 and U3 differ by a trailing slash only.
U1 == <<"h", "/", "a">>
U2 == <<"h", "/", "b">>
U3 == <<"h", "/", "a", "/">>

LPage(primary, thumb, next) == [primary |-> primary, thumb |-> thumb, next |-> next]

\* The listing pages of the whole-job specification: no project at all, one
\* link and a next page, a repeated link, links of the thumbnail selector only,
\* a link without href and one whose href is empty.
ListingPages ==
    { LPage(<<>>, <<>>, FALSE),
      LPage(<<U1>>, <<U2>>, TRUE),
      LPage(<<U1, U2, U1>>, <<>>, FALSE),
      LPage(<<>>, <<U3>>, TRUE),
      LPage(<<None, <<>>, U2>>, <<>>, TRUE) }

PlainPage ==
    [h1 |-> None, ogTitle |-> None, ogDesc |-> None, desc |-> None, tags |-> <<>>,
     info |-> <<>>, price |-> None, icons |-> <<>>, ratingValue |-> None,
     ratingCount |-> None, ogImage |-> None, coverImg |-> <<>>, shotLinks |-> <<>>,
     shotImgs |-> <<>>]

\* Asset URLs: with an extension, without one, with a query string.
ImgPng == <<"i", "/", "c", ".", "p">>
ImgNoExt == <<"i", "/", "d">>
ImgQuery == <<"i", "/", "e", ".", "g", "?", "v", ".", "1">>

\* The project pages of the whole-job specification.
ProjectPages ==
    { \* a heading and nothing else
      [PlainPage EXCEPT !.h1 = <<" ", "G", "\n", " ", "1">>],
      \* no heading, og:title, a cover and a screenshot, a rating
      [PlainPage EXCEPT !.ogTitle = <<"O">>, !.ogImage = ImgPng, !.shotLinks = <<ImgNoExt>>,
                        !.ratingValue = <<"4">>, !.ratingCount = <<"2">>],
      \* an empty og:title: the message falls back to the slug
      [PlainPage EXCEPT !.ogTitle = <<>>, !.shotImgs = <<[src |-> None, lazy |-> ImgQuery]>>],
      \* a title that begins with the total-count prefix, a number after it
      [PlainPage EXCEPT !.h1 = TotalPrefix \o <<"7">>],
      \* a title that begins with the total-count prefix, no number after it
      [PlainPage EXCEPT !.h1 = TotalPrefix \o <<"x">>, !.ogImage = ImgPng],
      \* og:title without a content attribute
      [PlainPage EXCEPT !.ogTitle = NoAttr],
      \* a rating tag without a content attribute
      [PlainPage EXCEPT !.h1 = <<"G">>, !.ratingValue = NoAttr] }

\* The steps of a job up to the return of fetch_project_urls, the listing
\* pages drawn from LP.
ListingStep(j, LP) ==
    \/ \E raw \in RawCreators : start_scrape(j, raw)
    \/ TaskStart(j)
    \/ ListingRequest(j)
    \/ \E err \in FetchErrors : ListingFail(j, err)
    \/ \E p \in LP : ListingOk(j, p)

\* The steps of a job after it, the project pages drawn from PP.
ProjectStep(j, PP) ==
    \/ Orchestrate(j)
    \/ ProjectRequest(j)
    \/ \E err \in FetchErrors : ProjectFail(j, err)
    \/ \E p \in PP : ProjectOk(j, p)
    \/ DownloadRequest(j)
    \/ \E ok \in BOOLEAN : DownloadResponse(j, ok)
    \/ Persist(j)
    \/ Emit(j)
    \/ WriteIndex(j)
    \/ Archive(j)

Next == ListingStep(FirstJob, ListingPages) \/ ProjectStep(FirstJob, ProjectPages)

Spec == Init /\ [][Next]_vars

\* The whole job when its task is scheduled whenever it can take a step and
\* every request it awaits is answered or fails: the event loop resumes the
\* task at each completed await (app.py:43, asyncio.create_task).
SpecLive == Spec /\ WF_vars(Next)

(***************************************************************************)
(* fetch_project_urls alone, on every listing page of at most MaxLinks     *)
(* primary links and at most one thumbnail link.                           *)
(***************************************************************************)
MaxLinks == 2

SeqsUpTo(S, n) == UNION {[1..k -> S] : k \in 0..n}

\* The href of a primary link: missing, or a project URL.
HrefOpts == {None, U1, U2}

GenListingPages ==
    {LPage(p, t, n) : p \in SeqsUpTo(HrefOpts, MaxLinks),
                      t \in SeqsUpTo({U2}, 1), n \in BOOLEAN}

NextPaginate == ListingStep(FirstJob, GenListingPages)

SpecPaginate == Init /\ [][NextPaginate]_vars

\* Two jobs side by side (app.py:43 creates one task per accepted POST
\* /scrape): the steps of both tasks interleave at every await.
RawCreatorsTwo == {<<"a">>, <<"B">>}
ListingPagesTwo ==
    {LPage(<<>>, <<>>, FALSE), LPage(<<U1>>, <<>>, FALSE), LPage(<<U2, U1>>, <<>>, TRUE)}
ProjectPagesTwo ==
    { [PlainPage EXCEPT !.h1 = <<"G">>, !.ogImage = ImgPng],
      [PlainPage EXCEPT !.h1 = TotalPrefix \o <<"7">>],
      [PlainPage EXCEPT !.ogTitle = NoAttr] }
JobStep(j) ==
    \/ \E raw \in RawCreatorsTwo : start_scrape(j, raw)
    \/ TaskStart(j)
    \/ ListingRequest(j)
    \/ \E err \in FetchErrors : ListingFail(j, err)
    \/ \E p \in ListingPagesTwo : ListingOk(j, p)
    \/ ProjectStep(j, ProjectPagesTwo)

NextTwo == \E j \in AllJobs : JobStep(j)

SpecTwo == Init /\ [][NextTwo]_vars

(***************************************************************************)
(* The properties.                                                         *)
(***************************************************************************)

Status(j) == jobs[j].status
InListing(j) == pc[j] \in {"list_req", "list_resp", "listed"}
ListingRequests(j) == SelectSeq(requests[j], LAMBDA r : r.kind = "listing")
\* The URLs the links of listing page p carry.
Links(p) == TruthyOnly(Cells(p))
\* The URLs of the listing pages v, page by page, in the order of the links.
Seen(v) == Flatten([n \in 1..Len(v) |-> Links(v[n])])
\* Page n of v has a URL that no earlier page of v has.
AddedNew(v, n) ==
    \E u \in Range(Links(v[n])) : \A m \in 1..(n - 1) : u \notin Range(Links(v[m]))
FirstPos(s, x) == CHOOSE i \in 1..Len(s) : s[i] = x /\ \A k \in 1..(i - 1) : s[k] # x
NoRepeat(s) == \A a, b \in 1..Len(s) : a # b => s[a] # s[b]

\* C1: after listing page n is processed, page n+1 is fetched if and only if
\* page n brought a URL not seen before and has a next-page link; on the first
\* page where one of the two fails the paginator returns, and no further listing
\* page is requested.  The i-th listing request is for page i.
C1_PaginationContinues ==
    \A j \in DOMAIN jobs :
        LET v == soup[j]
            L == Len(ListingRequests(j))
        IN /\ \A n \in 1..Len(v) :
                IF AddedNew(v, n) /\ v[n].next
                THEN L >= n + 1 \/ (pc[j] = "list_req" /\ page[j] = n + 1)
                ELSE n = Len(v) /\ L = n /\ pc[j] = "listed"
           /\ \A i \in 1..L : ListingRequests(j)[i].url = PageUrl(creator[j], i)
           /\ pc[j] = "listed" => requests[j] = ListingRequests(j) /\ page[j] = L

\* The paginator has returned after three pages or more, the last of which has
\* a next-page link but only links already seen.
C1_Witness ==
    \E j \in DOMAIN jobs :
        /\ pc[j] = "listed" /\ Len(soup[j]) >= 3
        /\ soup[j][Len(soup[j])].next
        /\ Links(soup[j][Len(soup[j])]) # <<>>
        /\ ~AddedNew(soup[j], Len(soup[j]))

\* C2: the list the paginator builds and returns has no URL twice, holds
\* exactly the URLs of the links of the pages visited, and orders them by their
\* first appearance.
C2_UrlsDistinctInOrder ==
    \A j \in DOMAIN jobs :
        InListing(j) =>
            LET all == Seen(soup[j])
                u == urls[j]
            IN /\ NoRepeat(u)
               /\ Range(u) = Range(all)
               /\ \A a, b \in 1..Len(u) : a < b => FirstPos(all, u[a]) < FirstPos(all, u[b])

\* The paginator has returned two URLs or more from pages that repeat a link
\* within a page and across pages.
C2_Witness ==
    \E j \in DOMAIN jobs :
        /\ pc[j] = "listed" /\ Len(urls[j]) >= 2 /\ Len(soup[j]) >= 2
        /\ \E n \in 1..Len(soup[j]) : ~NoRepeat(Links(soup[j][n]))
        /\ \E n \in 2..Len(soup[j]) :
              \E u \in Range(Links(soup[j][n])) : u \in Range(Links(soup[j][1]))

PageRequest(r) == r.kind \in {"listing", "project"}
ProjectRequests(j) == SelectSeq(requests[j], LAMBDA r : r.kind = "project")
\* The task of job j takes a step.
Moves(j) == pc'[j] # pc[j]

\* C3: when the paginator returns no URL, the run fails with the
\* no-projects-found error: no progress event has been emitted, no project page
\* requested, index.json is not written, and the job ends in status error with
\* that message, total 0 and progress empty; nothing of the job changes later.
C3_NoProjectsFound ==
    [][\A j \in DOMAIN jobs :
          /\ (pc[j] = "listed" /\ urls[j] = <<>> /\ Moves(j)) =>
                /\ pc'[j] = "done"
                /\ jobs'[j] = [NewJob EXCEPT !.status = "error",
                                             !.error = NoProjectsError(creator[j])]
                /\ jobs'[j].error # None
                /\ events'[j] = <<>>
                /\ ProjectRequests(j)' = <<>>
                /\ disk'[j].index = <<>> /\ disk'[j].meta = <<>>
          /\ (pc[j] = "done" /\ jobs[j].error = NoProjectsError(creator[j])) =>
                /\ jobs'[j] = jobs[j] /\ events'[j] = events[j]
                /\ requests'[j] = requests[j] /\ disk'[j] = disk[j]
      ]_vars

\* A job has ended with the no-projects-found error after a listing page that
\* was fetched.
C3_Witness ==
    \E j \in DOMAIN jobs :
        /\ pc[j] = "done" /\ Status(j) = "error"
        /\ jobs[j].error = NoProjectsError(creator[j])
        /\ Len(responses[j]) >= 1

\* The record that metadata.json of slug s holds after the projects of rs were
\* processed in order: the one of the last project with that slug.
LastWithSlug(rs, s) ==
    rs[CHOOSE k \in 1..Len(rs) :
          rs[k].slug = s /\ \A m \in (k + 1)..Len(rs) : rs[m].slug # s]

\* C5: when the fetch of a listing page or of a project page fails, that
\* request is the last one the job issues, index.json and the archive are never
\* written and the job ends in status error with the failure as its message;
\* the failed project is the one after those already processed, and the
\* metadata.json of each of these is on disk as it was written.
C5_FetchFailureAborts ==
    \A j \in DOMAIN jobs :
        \A i \in 1..Len(responses[j]) :
            (PageRequest(requests[j][i]) /\ responses[j][i] \in FetchErrors) =>
                /\ i = Len(requests[j]) /\ inflight[j] = {}
                /\ pc[j] = "done" /\ Status(j) = "error"
                /\ jobs[j].error = responses[j][i]
                /\ disk[j].index = <<>> /\ disk[j].zip = None /\ jobs[j].zip = None
                /\ requests[j][i].kind = "project" =>
                      requests[j][i].url = urls[j][Len(results[j]) + 1]
                /\ DOMAIN disk[j].meta = {results[j][k].slug : k \in 1..Len(results[j])}
                /\ \A sl \in DOMAIN disk[j].meta :
                      disk[j].meta[sl] = LastWithSlug(results[j], sl)

\* The page fetch of the second or a later project has failed.
C5_Witness ==
    \E j \in DOMAIN jobs :
        /\ pc[j] = "done" /\ Len(results[j]) >= 1
        /\ requests[j][Len(requests[j])].kind = "project"
        /\ responses[j][Len(responses[j])] \in FetchErrors

\* Every page request answered so far succeeded.
AllPagesFetched(j) ==
    \A i \in 1..Len(responses[j]) : PageRequest(requests[j][i]) => responses[j][i] = Ok

\* C4: a run that discovered N >= 1 URLs and whose page fetches all succeeded
\* has emitted the total-count event with N, then one completion message per
\* project in discovery order, and index.json holds project_count N and the N
\* records in discovery order; index.json is written after the last message.
C4_AsClaimed ==
    \A j \in DOMAIN jobs :
        LET N == Len(urls[j])
            ix == disk[j].index
        IN /\ ix # <<>> => Len(events[j]) = N + 1
           /\ (pc[j] = "done" /\ N >= 1 /\ AllPagesFetched(j)) =>
                /\ Len(events[j]) = N + 1
                /\ events[j][1] = TotalMessage(N)
                /\ ix # <<>>
                /\ ix[1].project_count = N /\ Len(ix[1].projects) = N
                /\ \A i \in 1..N :
                      /\ ix[1].projects[i].url = urls[j][i]
                      /\ events[j][i + 1] = CompletionMessage(ix[1].projects[i])

\* The responses to the downloads of the project whose downloads are over.
AssetResponses(j) ==
    SubSeq(responses[j], Len(responses[j]) - Len(cur[j].tasks) + 1, Len(responses[j]))
AssetRequests(j) ==
    SubSeq(requests[j], Len(requests[j]) - Len(cur[j].tasks) + 1, Len(requests[j]))

\* C6: whichever downloads of a project fail, each enumerated asset is
\* requested once, in order, the files of those that succeeded are on disk,
\* metadata.json is written, the completion message is emitted and the run goes
\* on: it does not end in error with the project whose asset failed.
C6_AsClaimed ==
    \A j \in DOMAIN jobs :
        /\ pc[j] = "emit" =>
              /\ Len(requests[j]) > Len(cur[j].tasks)
              /\ requests[j][Len(requests[j]) - Len(cur[j].tasks)].kind = "project"
              /\ \A t \in 1..Len(cur[j].tasks) :
                    /\ AssetRequests(j)[t] = [kind |-> "asset", url |-> cur[j].tasks[t].url]
                    /\ AssetResponses(j)[t] = Ok =>
                          /\ cur[j].tasks[t].dest \in DOMAIN disk[j].images
                          /\ disk[j].images[cur[j].tasks[t].dest] = cur[j].tasks[t].url
              /\ cur[j].meta.slug \in DOMAIN disk[j].meta
              /\ disk[j].meta[cur[j].meta.slug] = cur[j].meta
        /\ \A i \in 1..Len(responses[j]) :
              (/\ responses[j][i] = DownloadFailed
               /\ \A k \in (i + 1)..Len(requests[j]) : requests[j][k].kind = "asset")
              => Status(j) # "error"

\* C7: in the record written to metadata.json, no path names an asset whose
\* download failed: cover_image is set only if the cover was downloaded, and
\* every entry of screenshots is a file that was downloaded.
C7_AsClaimed ==
    \A j \in DOMAIN jobs :
        pc[j] = "emit" =>
            LET m == disk[j].meta[cur[j].meta.slug] IN
            \A t \in 1..Len(cur[j].tasks) :
                AssetResponses(j)[t] # Ok =>
                    /\ m.cover_image # cur[j].tasks[t].dest[2]
                    /\ cur[j].tasks[t].dest[2] \notin Range(m.screenshots)

\* C8: the job's total is 0 until the total-count event and the number of
\* discovered URLs from then on, whatever the completion messages are.
C8_AsClaimed ==
    \A j \in DOMAIN jobs :
        jobs[j].total = IF events[j] = <<>> THEN 0 ELSE Len(urls[j])

\* C9: the length of progress is the number of projects finished so far, and
\* the total when the job is done.
C9_AsClaimed ==
    \A j \in DOMAIN jobs :
        /\ Len(jobs[j].progress) = Len(results[j])
        /\ Status(j) = "done" => Len(jobs[j].progress) = jobs[j].total

\* C10: the extraction of a fetched project page never raises: no run ends with
\* the KeyError of a missing content attribute.
C10_AsClaimed ==
    \A j \in DOMAIN jobs : jobs[j].error # KeyErrorContent

\* C11: the title of the record is not empty when the heading has text, or
\* og:title has a non-empty content, or the last path segment of the project
\* URL is not empty.
C11_AsClaimed ==
    \A j \in DOMAIN jobs :
        cur[j].page # <<>> =>
            LET p == cur[j].page[1]
                url == cur[j].meta.url
            IN (\/ clean(p.h1) # <<>>
                \/ (p.ogTitle \notin {None, NoAttr} /\ p.ogTitle # <<>>)
                \/ AfterLast(url, "/") # <<>>)
               => cur[j].meta.title # <<>>

\* C12: two distinct URLs of the list the paginator returns have different
\* slugs, so that the metadata.json of every finished project is still the
\* one written for it.
C12_AsClaimed ==
    \A j \in DOMAIN jobs :
        /\ \A a, b \in 1..Len(urls[j]) : a # b => Slug(urls[j][a]) # Slug(urls[j][b])
        /\ \A k \in 1..Len(results[j]) :
              disk[j].meta[results[j][k].slug] = results[j][k]

\* What job j owns: its registry entry, its task's variables, its output tree.
JobView(j) ==
    <<IF j \in DOMAIN jobs THEN <<jobs[j]>> ELSE <<>>, pc[j], creator[j], page[j],
      urls[j], soup[j], idx[j], results[j], cur[j], sem[j], inflight[j],
      requests[j], responses[j], events[j], disk[j], written[j]>>
\* The registry entry the messages evs give when on_progress handles them one
\* after the other, starting from the entry start_scrape creates.
RECURSIVE Replay(_)
Replay(evs) ==
    IF evs = <<>> THEN NewJob
    ELSE LET before == Replay(SubSeq(evs, 1, Len(evs) - 1))
             msg == evs[Len(evs)]
         IN IF OnProgressRaises(msg) THEN before ELSE on_progress(before, msg)
\* The failures job j can have met by itself.
OwnFailures(j) ==
    {NoProjectsError(creator[j]), KeyErrorContent}
    \cup (IF responses[j] # <<>> THEN {responses[j][Len(responses[j])]} \cap FetchErrors ELSE {})
    \cup (IF events[j] # <<>> /\ OnProgressRaises(events[j][Len(events[j])])
          THEN {IntError(Remove(events[j][Len(events[j])], TotalPrefix))} ELSE {})
\* The entry of job j is the one job j alone gives.
EntryIsOwn(j) ==
    j \in DOMAIN jobs =>
        /\ jobs[j].progress = Replay(events[j]).progress
        /\ jobs[j].total = Replay(events[j]).total
        /\ (jobs[j].status = "running") <=> (pc[j] # "done")
        /\ jobs[j].status = "done" =>
              jobs[j].zip = ZipPath(j, creator[j]) /\ jobs[j].error = None
        /\ jobs[j].status = "error" =>
              jobs[j].zip = None /\ jobs[j].error \in OwnFailures(j)

\* C13: with two jobs running side by side, a step of one job's task leaves
\* everything of the other job as it is (its registry entry, its task, its
\* output tree), and the entry of each job is always the one its own messages
\* and its own outcome give.
C13_JobsIsolated ==
    /\ [](\A j \in AllJobs : EntryIsOwn(j))
    /\ [][\A j \in AllJobs : (pc'[j] = pc[j]) => (JobView(j)' = JobView(j))]_vars
\* One job has failed on a project page while the other, for another creator,
\* is in the middle of a project and has made progress.
C13_Witness ==
    /\ DOMAIN jobs = AllJobs
    /\ creator["j1"] # creator["j2"]
    /\ Status("j1") = "error" /\ events["j1"] # <<>>
    /\ pc["j2"] = "emit" /\ jobs["j2"].total = 1

\* The slots of job j's limiter that are taken.
SlotsHeld(j) == MAX_CONCURRENT_DOWNLOADS - sem[j]

\* C14: while a project page fetch or an asset download of a job is in
\* flight the task holds a slot of the job's limiter; the slots held are never
\* more than 6 (nor fewer than 0); and outside the fetch of a project page and
\* the download loop, in particular after a page fetch raised and after the job
\* ended in whatever way, no slot is held.
C14_SlotsHeld ==
    \A j \in DOMAIN jobs :
        pc[j] # "start" =>
            /\ SlotsHeld(j) \in 0..MAX_CONCURRENT_DOWNLOADS
            /\ \A r \in inflight[j] : r.kind \in {"project", "asset"} => SlotsHeld(j) >= 1
            /\ pc[j] \in {"proj_resp", "download", "dl_resp"} => SlotsHeld(j) = 1
            /\ pc[j] \notin {"proj_resp", "download", "dl_resp"} => SlotsHeld(j) = 0
\* The fetch of the second project's page raised, after the first project's
\* downloads; the job has ended and every slot is free again.
C14_Witness ==
    \E j \in DOMAIN jobs :
        /\ pc[j] = "done" /\ Status(j) = "error"
        /\ Len(results[j]) = 1 /\ disk[j].images # <<>>
        /\ requests[j][Len(requests[j])].kind = "project"
        /\ responses[j][Len(responses[j])] \in FetchErrors
        /\ sem[j] = MAX_CONCURRENT_DOWNLOADS

\* C15: the status of a job is running, done or error; the entry is created
\* with status running; once the status is done or error no step changes the
\* entry's status, progress, total or error (so the status changes at most
\* once); and an entry is never removed.
C15_StatusChangesOnce ==
    /\ [](\A j \in DOMAIN jobs : jobs[j].status \in {"running", "done", "error"})
    /\ [][/\ DOMAIN jobs \subseteq DOMAIN jobs'
          /\ \A j \in DOMAIN jobs' :
                IF j \notin DOMAIN jobs
                THEN jobs'[j].status = "running"
                ELSE jobs[j].status # "running" =>
                        /\ jobs'[j].status = jobs[j].status
                        /\ jobs'[j].progress = jobs[j].progress
                        /\ jobs'[j].total = jobs[j].total
                        /\ jobs'[j].error = jobs[j].error]_vars
\* A job that made progress on one project and then failed on the next.
C15_Witness ==
    \E j \in DOMAIN jobs :
        /\ jobs[j].status = "error" /\ jobs[j].progress # <<>>
        /\ jobs[j].total = 2 /\ pc[j] = "done"

\* The position in the requests of job j of its i-th project page request.
ProjectRequestAt(j, i) ==
    CHOOSE n \in 1..Len(requests[j]) :
        /\ requests[j][n].kind = "project"
        /\ Len(SelectSeq(SubSeq(requests[j], 1, n), LAMBDA r : r.kind = "project")) = i
\* The downloads a finished project's record tells of.
AssetCount(rec) == (IF rec.cover_image # None THEN 1 ELSE 0) + Len(rec.screenshots)

PageFetched(j, i) ==
    /\ ProjectRequestAt(j, i) <= Len(responses[j])
    /\ responses[j][ProjectRequestAt(j, i)] = Ok

\* C17: metadata.json is written once for every project whose page fetch
\* succeeded, and for no other, in the order of the projects; not while a
\* download of the project is still to be attempted; before the completion
\* message of the project; and there are never more completion messages than
\* metadata.json files written.
C17_AsClaimed ==
    \A j \in DOMAIN jobs :
        LET PR == ProjectRequests(j)
            W == written[j]
        IN /\ NoRepeat(W)
           /\ Len(W) <= Len(PR)
           /\ \A i \in 1..Len(W) : W[i] = urls[j][i] /\ PageFetched(j, i)
           /\ Len(events[j]) <= Len(W) + 1
           /\ pc[j] \in {"download", "dl_resp"} => Len(W) = Len(PR) - 1
           /\ pc[j] = "emit" =>
                 /\ Len(W) = Len(PR)
                 /\ cur[j].k = Len(cur[j].tasks) + 1
                 /\ Len(events[j]) = Len(W)
           /\ \A i \in 1..Len(PR) :
                 (PageFetched(j, i) /\ pc[j] \notin {"download", "dl_resp"}) => i <= Len(W)

\* The URLs the listing pages of the whole-job specification draw their links from.
ListedUrls == UNION {Range(Links(p)) : p \in ListingPages}

\* C18: when every request is answered or fails, every job that was started
\* leaves status running and reaches done or error; and the paginator never
\* fetches more listing pages than one more than the URLs it collected, which
\* are at most the URLs the listing pages draw from.
C18_JobEnds ==
    /\ [](\A j \in DOMAIN jobs :
            /\ Len(ListingRequests(j)) <= Len(urls[j]) + 1
            /\ Len(urls[j]) <= Cardinality(ListedUrls))
    /\ \A j \in AllJobs :
          (j \in DOMAIN jobs) ~> (j \in DOMAIN jobs /\ jobs[j].status \in {"done", "error"})
\* A job is done whose paginator fetched one page more than there are URLs,
\* every page having carried a next-page link.
C18_Witness ==
    \E j \in DOMAIN jobs :
        /\ jobs[j].status = "done"
        /\ Len(urls[j]) = Cardinality(ListedUrls)
        /\ Len(ListingRequests(j)) = Cardinality(ListedUrls) + 1

\* C19: in every state, the zip of a job is set if and only if its status
\* is done, its error is set if and only if its status is error, and the
\* download endpoint answers "Zip not ready" for every job that is running or
\* has failed.
C19_ZipIffDone ==
    \A j \in DOMAIN jobs :
        /\ (jobs[j].zip # None) <=> (jobs[j].status = "done")
        /\ (jobs[j].error # None) <=> (jobs[j].status = "error")
        /\ jobs[j].status \in {"running", "error"} => download_zip(j) = NotReady
\* A job has failed after it finished a project and saved an image: files
\* are on disk, the error is set, and the download is not ready.
C19_Witness ==
    \E j \in DOMAIN jobs :
        /\ jobs[j].status = "error" /\ jobs[j].error # None /\ jobs[j].zip = None
        /\ results[j] # <<>> /\ disk[j].images # <<>>
        /\ download_zip(j) = NotReady

====
